---- MODULE Spec2Model ----
(***************************************************************************)
(* Brown-Robinson (fictitious play) solver of the crate                    *)
(* brown_robinson_method, the stand-alone solver of the lab-01 binary, the *)
(* discretization driver of continuous_convex_concave_method, and, of the  *)
(* crate game_theory: CooperativeGame with its Shapley values x(),         *)
(* Game::solve_analytically, the construction of a matrix from parsed rows *)
(* and BackwardInductionGame (random, reduce, print_current).              *)
(*                                                                         *)
(* Every f64 of the program is an exact rational here, a record            *)
(* [n |-> numerator, d |-> denominator] in lowest terms with d > 0, so     *)
(* that equal values are equal records.  Rounding of f64 arithmetic is not *)
(* part of the model (so two payoffs compare equal exactly when their real *)
(* values are equal).  Vectors and matrices are functions over 0 .. N-1,   *)
(* as the program indexes them.  A local the program computes once         *)
(* (let x = ...) is bound once, as \E x \in {...}.                          *)
(***************************************************************************)
EXTENDS Integers, Sequences, FiniteSets, TLC

VARIABLES
    \* ---- BrownRobinson (crates/brown_robinson_method/src/lib.rs:41-56)
    game,                   \* the payoff matrix, game[i][j] = row i, column j
    a_strategy,
    b_strategy,
    a_scores,
    b_scores,
    min_high_price,
    max_low_price,
    a_strategy_times_used,
    b_strategy_times_used,
    k,
    \* ---- what the last calls returned to the caller
    row,                    \* the BrownRobinsonRow of the last next(), or NoRow
    bounds_ret,             \* the pair of the last bounds(), or NoBounds
    calls,                  \* how many times next() has been called on the solver
    \* ---- Iter (crates/continuous_convex_concave_method/src/iter.rs:10-23)
    coefficients,           \* game: the kernel's [a, b, c, d, e]
    accuracy,
    window_size,
    window,                 \* sequence of WindowElement, front first
    n,
    previous_price,         \* NoPrice or <<price>>
    price,
    sum_delta,
    \* ---- the driver's call in progress and what its last call returned
    pc,                     \* "idle", or "brown_robinson" inside the loop of next()
    state_ret,              \* NoneYet, None or Some(State) of the last Iter::next()
    \* ---- history of the driver's run
    price_log,              \* every price yielded so far, in order
    delta_log,              \* every delta pushed to the window so far, in order
    usize_bits,             \* usize::BITS of the build target
    dimension,              \* the dimension of the last matrix current_game() built, or 0
    \* ---- calls of the other operations of the crates
    panic,                  \* NoPanic, or the message of the panic that ended the run
    arg,                    \* the argument handed to the operation
    ret,                    \* what the last call returned, or NoneYet
    coop,                   \* the CooperativeGame built by CooperativeGame::new, or NoCoop
    \* ---- BackwardInductionGame (crates/game_theory/src/positional/backward_induction.rs:33-36)
    layers,                 \* layers[l][i] = node i of layer l, or NoLayers
    \* ---- the call of reduce() in progress
    iteration,              \* reduce's counter of the layers resolved so far
    reduce_pc               \* "not called", "loop", "returned" or "panicked"

solver_vars == <<game, a_strategy, b_strategy, a_scores, b_scores, min_high_price,
                 max_low_price, a_strategy_times_used, b_strategy_times_used, k>>

vars == <<game, a_strategy, b_strategy, a_scores, b_scores, min_high_price,
          max_low_price, a_strategy_times_used, b_strategy_times_used, k,
          row, bounds_ret, calls,
          coefficients, accuracy, window_size, window, n, previous_price, price,
          sum_delta, pc, state_ret, price_log, delta_log, usize_bits, dimension,
          panic, arg, ret, coop, layers, iteration, reduce_pc>>

iter_vars == <<coefficients, accuracy, window_size, window, n, previous_price, price,
               sum_delta, pc, state_ret, price_log, delta_log, usize_bits, dimension>>

call_vars == <<panic, arg, ret, coop>>

tree_vars == <<layers, iteration, reduce_pc>>

----------------------------------------------------------------------------
\* Bounds of the model.

\* payoffs of the enumerated matrices are drawn from MinPayoff .. MaxPayoff
MaxPayoff == 2
\* next() is called at most MaxK times on one solver
MaxK == 5
\* the driver refines up to level MaxN; calls after the end of its sequence
\* are followed until n reaches usize::MAX
MaxN == 6
\* window_size is drawn from 1 .. MaxWindow
MaxWindow == 3
\* the solver run inside one driver step is followed for at most MaxBrSteps steps
MaxBrSteps == 12
\* usize of the driver's build target is MinUsizeBits or MaxUsizeBits bits wide
MinUsizeBits == 4
MaxUsizeBits == 6
\* characteristic functions of up to MaxPlayers players are handed to CooperativeGame::new
MaxPlayers == 9
\* every characteristic function of at most MaxValues values is enumerated
MaxValues == 5
\* dmatrix_from_rows is handed up to MaxRows rows of up to MaxRowLen values each
MaxRows == 3
MaxRowLen == 2
\* where termination is checked, the solver run inside one driver step is
\* followed for at most MaxRunSteps steps
MaxRunSteps == 128
\* random() is asked for trees of depth 1 .. MaxDepth, for up to MaxTreePlayers
\* players of 1 .. MaxPaths strategies each
MaxDepth == 2
MaxPaths == 2
MaxTreePlayers == 2
\* the leaves of a tree hold at most MaxEntries prize components in all, and
\* the components the generator draws for one tree add up to at most MaxPrizeSum
MaxEntries == 8
MaxPrizeSum == 3

----------------------------------------------------------------------------
\* Exact rationals standing for f64.

AbsInt(x) == IF x < 0 THEN -x ELSE x

\* Euclid's algorithm, on pairs of naturals
Euclid[p \in Nat \X Nat] == IF p[2] = 0 THEN p[1] ELSE Euclid[<<p[2], p[1] % p[2]>>]
Gcd(x, y) == Euclid[<<x, y>>]

Rat(num, den) ==
    LET g == Gcd(AbsInt(num), AbsInt(den))
        s == IF den < 0 THEN -1 ELSE 1
    IN  [n |-> s * (num \div g), d |-> s * (den \div g)]

RInt(v) == [n |-> v, d |-> 1]
\* the two fractions are brought to their least common denominator, which
\* keeps the intermediate products small
OverLcm(p, q) ==
    LET g == Gcd(p.d, q.d)
    IN  [pn |-> p.n * (q.d \div g), qn |-> q.n * (p.d \div g), d |-> (p.d \div g) * q.d]
RLe(p, q) == \E c \in {OverLcm(p, q)} : c.pn <= c.qn
RLt(p, q) == \E c \in {OverLcm(p, q)} : c.pn < c.qn
RAdd(p, q) == LET c == OverLcm(p, q) IN Rat(c.pn + c.qn, c.d)
RSub(p, q) == LET c == OverLcm(p, q) IN Rat(c.pn - c.qn, c.d)
RMul(p, q) == Rat(p.n * q.n, p.d * q.d)
RAbs(p) == [n |-> AbsInt(p.n), d |-> p.d]
RDivInt(p, c) == Rat(p.n, p.d * c)
RMin(p, q) == IF RLe(p, q) THEN p ELSE q
RMax(p, q) == IF RLe(q, p) THEN p ELSE q

----------------------------------------------------------------------------
\* Vectors and matrices.

Dim(v) == Cardinality(DOMAIN v)
Indices(v) == 0 .. (Dim(v) - 1)

\* Matrix::nrows, Matrix::ncols
NRows(m) == Dim(m)
NCols(m) == IF m = << >> THEN 0 ELSE Dim(m[0])

Row(m, i) == [j \in 0 .. (NCols(m) - 1) |-> m[i][j]]
Column(m, j) == [i \in 0 .. (NRows(m) - 1) |-> m[i][j]]

VecAdd(v, w) == [i \in DOMAIN v |-> RAdd(v[i], w[i])]
VecMax(v) == CHOOSE x \in {v[i] : i \in DOMAIN v} : \A i \in DOMAIN v : RLe(v[i], x)
VecMin(v) == CHOOSE x \in {v[i] : i \in DOMAIN v} : \A i \in DOMAIN v : RLe(x, v[i])
Zeros(m) == [i \in Indices(m) |-> 0]
ZerosOf(len) == [i \in 0 .. (len - 1) |-> 0]

MaxIndices(v) == {i \in DOMAIN v : v[i] = VecMax(v)}
MinIndices(v) == {i \in DOMAIN v : v[i] = VecMin(v)}

----------------------------------------------------------------------------
\* The matrices a solver is built from.

Payoffs == {RInt(v) : v \in -1 .. MaxPayoff}

\* every 2 x 2 matrix over Payoffs
Matrices2 == [0 .. 1 -> [0 .. 1 -> Payoffs]]

\* the 3 x 3 matrix of the lab's "example" feature
Example3 ==
    [i \in 0 .. 2 |-> [j \in 0 .. 2 |->
        RInt(<< <<2, 1, 3>>, <<3, 0, 1>>, <<1, 2, 1>> >>[i + 1][j + 1])]]

\* the 3 x 3 matrix of the lab's task
Task3 ==
    [i \in 0 .. 2 |-> [j \in 0 .. 2 |->
        RInt(<< <<12, 9, 18>>, <<15, 22, 5>>, <<16, 3, 12>> >>[i + 1][j + 1])]]

Matrices == Matrices2 \cup {Example3, Task3}

----------------------------------------------------------------------------
\* BrownRobinson::new

NoRow == [iteration |-> 0]
NoBounds == << >>

New(m, a, b) ==
    LET as == Column(m, a)
        bs == Row(m, b)
    IN  [game |-> m,
         a_strategy |-> a,
         b_strategy |-> b,
         a_scores |-> as,
         b_scores |-> bs,
         min_high_price |-> VecMax(as),
         max_low_price |-> VecMin(bs),
         a_strategy_times_used |-> [ZerosOf(NRows(m)) EXCEPT ![a] = 1],
         b_strategy_times_used |-> [ZerosOf(NCols(m)) EXCEPT ![b] = 1],
         k |-> 0]

\* the solver's fields are those of the freshly built solver s
Constructed(s) ==
    /\ game = s.game
    /\ a_strategy = s.a_strategy
    /\ b_strategy = s.b_strategy
    /\ a_scores = s.a_scores
    /\ b_scores = s.b_scores
    /\ min_high_price = s.min_high_price
    /\ max_low_price = s.max_low_price
    /\ a_strategy_times_used = s.a_strategy_times_used
    /\ b_strategy_times_used = s.b_strategy_times_used
    /\ k = s.k

\* no discretization driver exists beside a stand-alone solver
NoPrice == << >>
NoneYet == [tag |-> "not called"]
NoIter ==
    /\ coefficients = << >>
    /\ accuracy = RInt(0)
    /\ window_size = 1
    /\ window = << >>
    /\ n = 1
    /\ previous_price = NoPrice
    /\ price = RInt(0)
    /\ sum_delta = RInt(0)
    /\ pc = "idle"
    /\ state_ret = NoneYet
    /\ price_log = << >>
    /\ delta_log = << >>
    /\ usize_bits = 64
    /\ dimension = 0

\* no other operation has been called
NoPanic == ""
NoArg == << >>
NoCoop == << >>
\* no game tree exists
NoLayers == << >>
NoTree ==
    /\ layers = NoLayers
    /\ iteration = 0
    /\ reduce_pc = "not called"

NoCalls ==
    /\ panic = NoPanic
    /\ arg = NoArg
    /\ ret = NoneYet
    /\ coop = NoCoop

\* the solver's fields become those of the freshly built solver s
Construct(s) ==
    /\ game' = s.game
    /\ a_strategy' = s.a_strategy
    /\ b_strategy' = s.b_strategy
    /\ a_scores' = s.a_scores
    /\ b_scores' = s.b_scores
    /\ min_high_price' = s.min_high_price
    /\ max_low_price' = s.max_low_price
    /\ a_strategy_times_used' = s.a_strategy_times_used
    /\ b_strategy_times_used' = s.b_strategy_times_used
    /\ k' = s.k

Init ==
    /\ \E m \in Matrices : \E a \in Indices(m), b \in Indices(m) :
           Constructed(New(m, a, b))
    /\ row = NoRow
    /\ bounds_ret = NoBounds
    /\ calls = 0
    /\ NoIter
    /\ NoCalls
    /\ NoTree

----------------------------------------------------------------------------
\* The queries of BrownRobinson.

\* the high price is taken as the smallest of A's scores
high_price_Min == VecMin(a_scores)
high_price == VecMax(a_scores)
\* the low price is taken as the largest of B's scores
low_price_Max == VecMax(b_scores)
low_price == VecMin(b_scores)

RowMins(m) == [i \in Indices(m) |-> VecMin(Row(m, i))]
ColumnMaxs(m) == [j \in Indices(m) |-> VecMax(Column(m, j))]

\* Game::min_win_a, Game::max_loss_b
min_win_a(m) == [i \in Indices(m) |-> VecMin(Row(m, i))]
max_loss_b(m) == [j \in Indices(m) |-> VecMax(Column(m, j))]

\* DVector::argmax, argmin: the first index of the extremum, and the extremum
argmax(v) == <<CHOOSE i \in MaxIndices(v) : \A j \in MaxIndices(v) : i <= j, VecMax(v)>>
argmin(v) == <<CHOOSE i \in MinIndices(v) : \A j \in MinIndices(v) : i <= j, VecMin(v)>>

\* Game::lowest_price, Game::highest_price: (index, price)
lowest_price(m) == argmax(min_win_a(m))
highest_price(m) == argmin(max_loss_b(m))

\* the upper bound is taken over the row maxima
bounds_OfRowMaxs ==
    <<VecMax(RowMins(game)), VecMin([i \in Indices(game) |-> VecMax(Row(game, i))])>>
\* bounds(): (max over rows of the row minimum, min over columns of the column maximum)
bounds == <<VecMax(RowMins(game)), VecMin(ColumnMaxs(game))>>

min_max_prices == <<max_low_price, min_high_price>>

\* the sum of the two running bounds is not halved
price_estimation_Sum == RAdd(min_max_prices[1], min_max_prices[2])
price_estimation == RDivInt(RAdd(min_max_prices[1], min_max_prices[2]), 2)

strategies_used == <<a_strategy_times_used, b_strategy_times_used>>

----------------------------------------------------------------------------
\* BrownRobinson::next_strategies and Iterator::next

\* only the first index attaining the maximum
a_indices_First(v) ==
    {i \in DOMAIN v : v[i] = VecMax(v) /\ \A j \in DOMAIN v : j < i => v[j] # VecMax(v)}
\* the indices whose value equals max_a, and those whose value equals min_b
a_indices(v) == {i \in DOMAIN v : v[i] = VecMax(v)}
b_indices(v) == {i \in DOMAIN v : v[i] = VecMin(v)}

\* the pairs next_strategies can return: any of a_indices with any of b_indices
next_strategies == a_indices(a_scores) \X b_indices(b_scores)

\* k is bumped twice
IncK_Twice(c) == c + 2
IncK(c) == c + 1

\* the use-count is not bumped
Increment_Skipped(v, i) == v
Increment(v, i) == [v EXCEPT ![i] = v[i] + 1]

\* the running minimum is overwritten by the latest high price
NextMinHighPrice_Latest(old, hp) == hp
NextMinHighPrice(old, hp) == RMin(old, hp)
NextMaxLowPrice(old, lp) == RMax(old, lp)

BrownRobinsonRow(hp, lp) ==
    [iteration |-> k',
     a_strategy |-> a_strategy',
     b_strategy |-> b_strategy',
     a_score |-> a_scores',
     b_score |-> b_scores',
     high_price |-> hp,
     low_price |-> lp,
     epsilon |-> RSub(min_high_price', max_low_price')]

\* one call of next() on the solver
BrNext ==
    /\ k' = IncK(k)
    /\ IF k' = 1
       THEN /\ UNCHANGED <<game, a_strategy, b_strategy, a_scores, b_scores,
                           min_high_price, max_low_price,
                           a_strategy_times_used, b_strategy_times_used>>
            /\ row' = BrownRobinsonRow(high_price, low_price)
       ELSE \E s \in next_strategies :
            LET a == s[1]
                b == s[2]
            IN  /\ a_strategy' = a
                /\ a_strategy_times_used' = Increment(a_strategy_times_used, a)
                /\ b_strategy' = b
                /\ b_strategy_times_used' = Increment(b_strategy_times_used, b)
                /\ a_scores' = VecAdd(a_scores, Column(game, b))
                /\ b_scores' = VecAdd(b_scores, Row(game, a))
                /\ UNCHANGED game
                /\ \E hp \in {RDivInt(high_price', k')}, lp \in {RDivInt(low_price', k')} :
                       /\ min_high_price' = NextMinHighPrice(min_high_price, hp)
                       /\ max_low_price' = NextMaxLowPrice(max_low_price, lp)
                       /\ row' = BrownRobinsonRow(hp, lp)

\* the caller pulls the next record
Step ==
    /\ calls < MaxK
    /\ BrNext
    /\ calls' = calls + 1
    /\ UNCHANGED <<bounds_ret, iter_vars, call_vars>>
    /\ UNCHANGED tree_vars

\* the caller asks for bounds()
CallBounds ==
    /\ bounds_ret' = bounds
    /\ UNCHANGED <<solver_vars, row, calls, iter_vars, call_vars>>
    /\ UNCHANGED tree_vars

Next == Step \/ CallBounds

Spec == Init /\ [][Next]_vars

----------------------------------------------------------------------------
\* The solver of the stand-alone lab-01 binary (lab-01-brown_robinson/src/main.rs),
\* an earlier BrownRobinson with the same fields, over the two 3 x 3 games of
\* its main().

\* the array literals handed to BrownRobinson::new
ArraysLab01 ==
    {[i \in 0 .. 2 |-> [j \in 0 .. 2 |-> RInt(lit[i + 1][j + 1])]] :
        lit \in {<< <<8, 12, 10>>, <<1, 6, 19>>, <<17, 11, 11>> >>,
                 << <<2, 1, 3>>, <<3, 0, 1>>, <<1, 2, 1>> >>}}

\* Matrix3::from_data(ArrayStorage(arr)): the storage is column-major, arr[c][r]
FromArrayStorage(arr) == [r \in Indices(arr) |-> [c \in Indices(arr) |-> arr[c][r]]]

NewLab01(arr, a, b) ==
    LET m == FromArrayStorage(arr)
        as == Row(m, a)
        bs == Column(m, b)
    IN  [game |-> m,
         a_strategy |-> a,
         b_strategy |-> b,
         a_scores |-> as,
         b_scores |-> bs,
         min_high_price |-> VecMax(as),
         max_low_price |-> VecMin(bs),
         a_strategy_times_used |-> [Zeros(m) EXCEPT ![a] = 1],
         b_strategy_times_used |-> [Zeros(m) EXCEPT ![b] = 1],
         k |-> 0]

InitLab01 ==
    /\ \E arr \in ArraysLab01 : \E a \in Indices(arr), b \in Indices(arr) :
           Constructed(NewLab01(arr, a, b))
    /\ row = NoRow
    /\ bounds_ret = NoBounds
    /\ calls = 0
    /\ NoIter
    /\ NoCalls
    /\ NoTree

\* bounds() of the lab-01 binary
boundsLab01 == <<max_low_price, min_high_price>>

\* one call of next() on the solver of the lab-01 binary
BrNextLab01 ==
    /\ k' = k + 1
    /\ IF k' = 1
       THEN /\ UNCHANGED <<game, a_strategy, b_strategy, a_scores, b_scores,
                           min_high_price, max_low_price,
                           a_strategy_times_used, b_strategy_times_used>>
            /\ row' = BrownRobinsonRow(high_price, low_price)
       ELSE \E s \in next_strategies :
            LET a == s[1]
                b == s[2]
                hp == RDivInt(high_price', k')
                lp == RDivInt(low_price', k')
            IN  /\ a_strategy' = a
                /\ a_strategy_times_used' = [a_strategy_times_used EXCEPT ![a] = @ + 1]
                /\ b_strategy' = b
                /\ b_strategy_times_used' = [b_strategy_times_used EXCEPT ![b] = @ + 1]
                /\ a_scores' = VecAdd(a_scores, Row(game, b))
                /\ b_scores' = VecAdd(b_scores, Column(game, a))
                /\ min_high_price' = RMin(min_high_price, hp)
                /\ max_low_price' = RMax(max_low_price, lp)
                /\ UNCHANGED game
                /\ row' = BrownRobinsonRow(hp, lp)

StepLab01 ==
    /\ calls < MaxK
    /\ BrNextLab01
    /\ calls' = calls + 1
    /\ UNCHANGED <<bounds_ret, iter_vars, call_vars>>
    /\ UNCHANGED tree_vars

CallBoundsLab01 ==
    /\ bounds_ret' = boundsLab01
    /\ UNCHANGED <<solver_vars, row, calls, iter_vars, call_vars>>
    /\ UNCHANGED tree_vars

NextLab01 == StepLab01 \/ CallBoundsLab01

SpecLab01 == InitLab01 /\ [][NextLab01]_vars

----------------------------------------------------------------------------
\* The discretization driver: ContinuousConvexConcaveGame and Iter.

\* the kernels [a, b, c, d, e] the driver is run on (h_xx < 0 < h_yy)
Kernels ==
    {[i \in 1 .. 5 |-> RInt(c[i])] :
        c \in {<<-1, 1, 2, 0, -1>>, <<-2, 1, 3, 0, -2>>, <<-3, 2, 4, -1, -3>>,
              <<-1, 1, 4, -1, -2>>}}

Accuracies == {Rat(1, 2), Rat(1, 20)}

\* ContinuousConvexConcaveGame::compute
compute(c, x, y) ==
    RAdd(RAdd(RAdd(RAdd(RMul(RMul(c[1], x), x), RMul(RMul(c[2], y), y)),
                   RMul(RMul(c[3], x), y)),
              RMul(c[4], x)),
         RMul(c[5], y))

\* usize arithmetic of the build target
RECURSIVE Pow2(_)
Pow2(bits) == IF bits = 0 THEN 1 ELSE 2 * Pow2(bits - 1)

usize_MAX == Pow2(usize_bits) - 1
NoUsize == << >>

\* the sum is never refused and skips a level
checked_add_Skips(x, y) == <<x + y + 1>>
\* the sum wraps around instead of being refused
checked_add_Wrapping(x, y) == <<(x + y) % (usize_MAX + 1)>>
\* usize::checked_add: None on overflow
checked_add(x, y) == IF x + y > usize_MAX THEN NoUsize ELSE <<x + y>>

\* the product wraps around instead of being refused
checked_mul_Wrapping(x, y) == <<(x * y) % (usize_MAX + 1)>>
\* usize::checked_mul: None on overflow
checked_mul(x, y) == IF x * y > usize_MAX THEN NoUsize ELSE <<x * y>>

\* `self.n + 1`: on overflow the build with overflow checks panics (NoUsize),
\* the build without them wraps around
unchecked_add(x, y) ==
    IF x + y > usize_MAX THEN {NoUsize, <<(x + y) % (usize_MAX + 1)>>} ELSE {<<x + y>>}

\* Iter::current_game at refinement level level, once its dimension is known:
\* element (i, j) is H(i/level, j/level)
current_game(c, level, dim) ==
    LET divisor == level
    IN  [i \in 0 .. (dim - 1) |-> [j \in 0 .. (dim - 1) |->
            compute(c, Rat(i, divisor), Rat(j, divisor))]]

\* the largest count is returned instead of its index
imax_Count(v) == CHOOSE c \in {v[i] : i \in DOMAIN v} : \A j \in DOMAIN v : v[j] <= c
\* Vector::imax on use-counts: the first index of the largest count
imax(v) == CHOOSE i \in DOMAIN v :
               /\ \A j \in DOMAIN v : v[j] <= v[i]
               /\ \A j \in DOMAIN v : j < i => v[j] < v[i]

None == [tag |-> "None"]
Some(st) == [tag |-> "Some", state |-> st]
State(x, y, p) == [x |-> x, y |-> y, price |-> p]
WindowElement(delta, st) == [delta |-> delta, state |-> st]

\* no solver exists before the driver builds one
NoSolver ==
    /\ game = << >>
    /\ a_strategy = 0
    /\ b_strategy = 0
    /\ a_scores = << >>
    /\ b_scores = << >>
    /\ min_high_price = RInt(0)
    /\ max_low_price = RInt(0)
    /\ a_strategy_times_used = << >>
    /\ b_strategy_times_used = << >>
    /\ k = 0
    /\ row = NoRow
    /\ bounds_ret = NoBounds
    /\ calls = 0

\* ContinuousConvexConcaveGame::iter -> Iter::new
InitIter ==
    /\ coefficients \in Kernels
    /\ accuracy \in Accuracies
    /\ window_size \in 1 .. MaxWindow
    /\ window = << >>
    /\ n = 1
    /\ previous_price = NoPrice
    /\ price = RInt(0)
    /\ sum_delta = RInt(0)
    /\ pc = "idle"
    /\ state_ret = NoneYet
    /\ price_log = << >>
    /\ delta_log = << >>
    /\ usize_bits \in {MinUsizeBits, MaxUsizeBits}
    /\ dimension = 0
    /\ NoSolver
    /\ NoCalls
    /\ NoTree

\* the oldest element is dropped only once the window is over its size
pop_front_Late(w, sum, size) ==
    IF Len(w) > size
    THEN [window |-> Tail(w), sum_delta |-> RSub(sum, Head(w).delta)]
    ELSE [window |-> w, sum_delta |-> sum]
\* the evicted delta stays in the running sum
pop_front_KeepsSum(w, sum, size) ==
    IF Len(w) = size
    THEN [window |-> Tail(w), sum_delta |-> sum]
    ELSE [window |-> w, sum_delta |-> sum]
\* next(): the eviction of the oldest element of a full window
pop_front(w, sum, size) ==
    IF Len(w) = size
    THEN [window |-> Tail(w), sum_delta |-> RSub(sum, Head(w).delta)]
    ELSE [window |-> w, sum_delta |-> sum]

\* next(): self.price = price, the update of the window, Some(State { .. })
Yield(p, x, y) ==
    /\ price' = p
    /\ IF previous_price # NoPrice
       THEN LET popped == pop_front(window, sum_delta, window_size)
                delta == RAbs(RSub(p, previous_price[1]))
            IN  /\ window' = Append(popped.window, WindowElement(delta, State(x, y, p)))
                /\ sum_delta' = RAdd(popped.sum_delta, delta)
                /\ delta_log' = Append(delta_log, delta)
       ELSE UNCHANGED <<window, sum_delta, delta_log>>
    /\ previous_price' = <<p>>
    /\ state_ret' = Some(State(x, y, p))
    /\ price_log' = Append(price_log, p)

\* the empty window is not looked at
Continues_SumOnly == RLt(accuracy, sum_delta)
\* next(): the condition under which the step is performed
Continues == window = << >> \/ RLt(accuracy, sum_delta)

\* a panic ends the run: nothing but the panic is left behind
Panics(message) ==
    /\ panic' = message
    /\ pc' = "panicked"

\* Iter::next up to its return or, when the discretized game has no saddle
\* point, up to the construction of the solver
IterNext ==
    /\ pc = "idle"
    /\ n < MaxN \/ ~Continues
    /\ UNCHANGED <<coefficients, accuracy, window_size, usize_bits, arg, ret, coop>>
    /\ \E next_n \in {checked_add(n, 1)} :
        IF next_n = NoUsize
        THEN /\ Panics("too many iterations have happened")
             /\ UNCHANGED <<solver_vars, row, bounds_ret, calls, window, n, previous_price,
                            price, sum_delta, state_ret, price_log, delta_log, dimension>>
        ELSE
        /\ n' = next_n[1]
        /\ IF Continues
           THEN \E dim \in unchecked_add(n', 1) :
                IF dim = NoUsize
                THEN /\ Panics("attempt to add with overflow")
                     /\ UNCHANGED <<solver_vars, row, bounds_ret, calls, window,
                                    previous_price, price, sum_delta, state_ret,
                                    price_log, delta_log, dimension>>
                ELSE IF checked_mul(dim[1], dim[1]) = NoUsize
                THEN /\ Panics("the resulting matrix is too big")
                     /\ UNCHANGED <<solver_vars, row, bounds_ret, calls, window,
                                    previous_price, price, sum_delta, state_ret,
                                    price_log, delta_log, dimension>>
                ELSE IF dim[1] = 0
                THEN \* argmax of the empty vector of row minima
                     /\ dimension' = dim[1]
                     /\ Panics("The input vector must not be empty.")
                     /\ UNCHANGED <<solver_vars, row, bounds_ret, calls, window,
                                    previous_price, price, sum_delta, state_ret,
                                    price_log, delta_log>>
                ELSE
                /\ dimension' = dim[1]
                /\ UNCHANGED panic
                /\ \E g \in {current_game(coefficients, n', dim[1])} :
                   \E lo \in {lowest_price(g)}, hi \in {highest_price(g)}, divisor \in {n'} :
                    IF lo[2] = hi[2]
                    THEN /\ Yield(lo[2], Rat(lo[1], divisor), Rat(hi[1], divisor))
                         /\ pc' = "idle"
                         /\ UNCHANGED <<solver_vars, row, bounds_ret, calls>>
                    ELSE /\ \E a \in Indices(g), b \in Indices(g) :
                                Construct(New(g, a, b))
                         /\ row' = NoRow
                         /\ calls' = 0
                         /\ pc' = "brown_robinson"
                         /\ UNCHANGED <<bounds_ret, window, previous_price, price,
                                        sum_delta, state_ret, price_log, delta_log>>
           ELSE /\ state_ret' = None
                /\ pc' = "idle"
                /\ UNCHANGED <<solver_vars, row, bounds_ret, calls, window, previous_price,
                               price, sum_delta, price_log, delta_log, dimension, panic>>
    /\ UNCHANGED tree_vars

\* the loop is left when epsilon is above the accuracy
Break_Flipped(epsilon) == RLt(accuracy, epsilon)
\* `if epsilon < self.accuracy { break; }`
Break(epsilon) == RLt(epsilon, accuracy)

\* Iter::next inside `for BrownRobinsonRow { epsilon, .. } in &mut brown_robinson`:
\* one record is pulled; when its epsilon is below the accuracy the loop is left
\* and the step is completed from price_estimation() and strategies_used()
BrownRobinsonLoop ==
    /\ pc = "brown_robinson"
    /\ BrNext
    /\ calls' = calls + 1
    /\ UNCHANGED <<bounds_ret, coefficients, accuracy, window_size, n, usize_bits,
                   dimension, call_vars>>
    /\ IF Break(row'.epsilon)
       THEN \E p \in {price_estimation'}, divisor \in {n} :
                /\ Yield(p, Rat(imax(strategies_used[1]'), divisor),
                            Rat(imax(strategies_used[2]'), divisor))
                /\ pc' = "idle"
       ELSE UNCHANGED <<window, previous_price, price, sum_delta, pc, state_ret,
                        price_log, delta_log>>
    /\ UNCHANGED tree_vars

\* the loop followed for at most MaxBrSteps records
IterBrownRobinson ==
    /\ calls < MaxBrSteps
    /\ BrownRobinsonLoop

NextIter == IterNext \/ IterBrownRobinson

SpecIter == InitIter /\ [][NextIter]_vars

----------------------------------------------------------------------------
\* Claims about the solver of the crate (specification Spec).

\* the sum of the entries of a use-count vector
RECURSIVE SumInts(_, _)
SumInts(v, len) == IF len = 0 THEN 0 ELSE v[len - 1] + SumInts(v, len - 1)
Used(v) == SumInts(v, Dim(v))

\* C1: across the steps of one solver min_high_price never increases and
\* max_low_price never decreases, and the epsilon of a record is never larger
\* than the epsilon of the record before it.
C1_PricesMonotone ==
    [][/\ RLe(min_high_price', min_high_price)
       /\ RLe(max_low_price, max_low_price')
       /\ (row.iteration # 0 /\ row'.iteration # 0 => RLe(row'.epsilon, row.epsilon))]_vars

\* a step at k > 1 whose own prices are strictly worse than the running bounds
C1_Witness ==
    /\ row.iteration >= 3
    /\ RLt(min_high_price, row.high_price)
    /\ RLt(row.low_price, max_low_price)

\* C2 as stated: in every reachable state, right after construction included,
\* each player's use-counts sum to exactly k.
C2_UsedSumsToK ==
    /\ Used(a_strategy_times_used) = k
    /\ Used(b_strategy_times_used) = k

\* C2 as amended: after each step each player's use-counts sum to exactly k;
\* right after construction (k = 0) they sum to 1, the initial pick.
C2_UsedSumsToKAfterStep ==
    /\ k >= 1 => Used(a_strategy_times_used) = k /\ Used(b_strategy_times_used) = k
    /\ k = 0 => Used(a_strategy_times_used) = 1 /\ Used(b_strategy_times_used) = 1

\* three steps done, one strategy of A used more than once
C2_Witness ==
    /\ k = 3
    /\ \E i \in DOMAIN a_strategy_times_used : a_strategy_times_used[i] >= 2

\* C3: A's cumulative score of row i is the sum over columns j of
\* game[i][j] times B's use-count of j, and B's cumulative score of column j is
\* the sum over rows i of game[i][j] times A's use-count of i.
RECURSIVE Weighted(_, _, _)
Weighted(payoffs, counts, len) ==
    IF len = 0 THEN RInt(0)
    ELSE RAdd(Weighted(payoffs, counts, len - 1),
              Rat(payoffs[len - 1].n * counts[len - 1], payoffs[len - 1].d))

C3_ScoresFollowOpponent ==
    /\ \A i \in Indices(game) :
           a_scores[i] = Weighted(Row(game, i), b_strategy_times_used, Dim(game))
    /\ \A j \in Indices(game) :
           b_scores[j] = Weighted(Column(game, j), a_strategy_times_used, Dim(game))

\* C4: at every step k > 1 the row chosen for A attains the maximum of A's
\* scores as they stood before the step and the column chosen for B attains
\* the minimum of B's; and every pair of tied indices can be the one chosen.
C4_BestResponse ==
    /\ [][k' > 1 /\ k' # k =>
            /\ a_scores[a_strategy'] = VecMax(a_scores)
            /\ b_scores[b_strategy'] = VecMin(b_scores)]_vars
    /\ [](k >= 1 /\ calls < MaxK =>
            \A a \in MaxIndices(a_scores), b \in MinIndices(b_scores) :
                ENABLED (Step /\ a_strategy' = a /\ b_strategy' = b))

\* A's scores as they stood before the last step
a_scores_before == [i \in Indices(game) |-> RSub(a_scores[i], game[i][b_strategy])]

\* a step at k > 1 that chose a tied row other than the first one
C4_Witness ==
    /\ k >= 2
    /\ Cardinality(MaxIndices(a_scores_before)) >= 2
    /\ a_strategy \in MaxIndices(a_scores_before)
    /\ \E i \in MaxIndices(a_scores_before) : i < a_strategy

\* C5: every call of next() yields a record whose iteration number is the
\* number of calls so far: k is 0 after construction, grows by exactly 1 per
\* call and is never reset, and a further call is always possible.
C5_UnboundedGenerator ==
    /\ [][k' # k \/ calls' # calls =>
            k' = k + 1 /\ calls' = calls + 1 /\ row'.iteration = k']_vars
    /\ [](k = calls /\ (calls = 0 => row = NoRow) /\ (calls > 0 => row.iteration = calls))
    /\ [](calls < MaxK => ENABLED Step)

C5_Witness == calls = MaxK /\ row.iteration = MaxK

\* C6: the lower price (max over rows of the row minimum) is at most the upper
\* price (min over columns of the column maximum), for bounds() and for
\* Game::lowest_price / Game::highest_price.
C6_LowerLeUpper ==
    /\ RLe(bounds[1], bounds[2])
    /\ bounds_ret # NoBounds => RLe(bounds_ret[1], bounds_ret[2])
    /\ RLe(lowest_price(game)[2], highest_price(game)[2])
    /\ bounds[1] = lowest_price(game)[2]
    /\ bounds[2] = highest_price(game)[2]

\* bounds() was called on a matrix without a saddle point
C6_Witness == bounds_ret # NoBounds /\ RLt(bounds_ret[1], bounds_ret[2])

\* C7: bounds() returns the static pure-strategy bounds of the matrix (max of
\* the row minima, min of the column maxima) and returns the same pair whenever
\* it is called during a run, whatever k, the scores and the running prices are.
C7_BoundsAreStatic ==
    [][bounds_ret' # NoBounds =>
          /\ bounds_ret' = <<VecMax(RowMins(game)), VecMin(ColumnMaxs(game))>>
          /\ bounds_ret # NoBounds => bounds_ret' = bounds_ret]_vars

----------------------------------------------------------------------------
\* Claims about the discretization driver (specification SpecIter).

RECURSIVE SumDeltas(_)
SumDeltas(w) == IF w = << >> THEN RInt(0) ELSE RAdd(w[1].delta, SumDeltas(Tail(w)))

\* the last len elements of the sequence s
Last(s, len) == SubSeq(s, Len(s) - len + 1, Len(s))

MinInt(x, y) == IF x <= y THEN x ELSE y

\* C8: a call of the driver returns end-of-sequence if and only if, at that
\* call, the window holds window_size deltas and their running sum is <=
\* accuracy; it never ends while the window holds fewer than window_size deltas.
C8_EndsIffWindowFullAndStable ==
    [][n' # n =>
          ((state_ret' = None /\ pc' = "idle")
              <=> (Len(window) = window_size /\ RLe(sum_delta, accuracy)))]_vars

\* C9: the window never holds more than window_size deltas, and it holds the
\* most recent deltas in arrival order: when a delta arrives at a full window,
\* exactly the oldest one is removed before the new one is appended.
C9_WindowHoldsMostRecent ==
    /\ Len(window) <= window_size
    /\ Len(window) = MinInt(window_size, Len(delta_log))
    /\ [i \in 1 .. Len(window) |-> window[i].delta] = Last(delta_log, Len(window))

\* a delta arrived at a full window of more than one element
C9_Witness ==
    /\ window_size >= 2
    /\ Len(window) = window_size
    /\ Len(delta_log) > window_size
    /\ window[1].delta # window[2].delta

\* C10: sum_delta is the sum of the deltas stored in the window (0 when it is
\* empty), and each stored delta is the absolute difference between the price
\* of its step and the price of the step before it.
C10_SumDeltaInSync ==
    /\ sum_delta = SumDeltas(window)
    /\ window = << >> => sum_delta = RInt(0)
    /\ Len(delta_log) = (IF price_log = << >> THEN 0 ELSE Len(price_log) - 1)
    /\ \A i \in 1 .. Len(window) :
           LET step == Len(price_log) - Len(window) + i
           IN  /\ window[i].state.price = price_log[step]
               /\ window[i].delta = RAbs(RSub(price_log[step], price_log[step - 1]))

\* a non-zero delta has been evicted and the window still holds non-zero deltas
C10_Witness ==
    /\ Len(delta_log) > Len(window)
    /\ delta_log[1] # RInt(0)
    /\ sum_delta # RInt(0)
    /\ Len(window) >= 2

\* C11: the level n is 1 after construction, and the i-th yielded state is
\* computed on the grid of level n = i + 1 (a matrix of dimension n + 1 whose
\* element (r, c) is H(r/n, c/n)): the first step uses n = 2 and each later
\* step a level exactly 1 higher than the step before.
C11_LevelFollowsSteps ==
    /\ [](state_ret = NoneYet /\ pc = "idle" /\ panic = NoPanic => n = 1)
    /\ [][pc = "idle" /\ pc' = "brown_robinson" =>
            /\ n' = n + 1
            /\ n' = Len(price_log) + 2
            /\ game' = current_game(coefficients, n', n' + 1)]_vars
    /\ [][price_log' # price_log =>
            /\ n' = Len(price_log') + 1
            /\ dimension' = n' + 1
            /\ state_ret'.state.price = price_log'[Len(price_log')]
            /\ n' % state_ret'.state.x.d = 0
            /\ n' % state_ret'.state.y.d = 0
            /\ pc = "brown_robinson" => game = current_game(coefficients, n', n' + 1)
            /\ pc = "idle" =>
                   /\ n' = n + 1
                   /\ state_ret'.state.price =
                          lowest_price(current_game(coefficients, n', n' + 1))[2]]_vars

\* the fourth state has been yielded, on the grid of level 5, in a run in
\* which the solver has been used
C11_Witness ==
    /\ Len(price_log) = 4
    /\ n = 5
    /\ dimension = 6
    /\ game # << >>
    /\ state_ret # NoneYet /\ state_ret # None

Representable(v) == v <= usize_MAX

\* the call left nothing behind but the panic
Aborted ==
    /\ panic' # NoPanic
    /\ state_ret' = state_ret
    /\ price_log' = price_log
    /\ window' = window
    /\ dimension' = dimension
    /\ game' = game

\* C12: with usize of a fixed width, a call of next() at a level n whose
\* successor is not representable aborts with a panic and yields no state, and
\* so does a call that performs a refinement step at a level whose dimension
\* n + 1 or its square is not representable; no matrix is ever built from a
\* dimension other than n + 1 or with a square that is not representable.
C12_OverflowIsFatal ==
    /\ [][pc = "idle" /\ (n' # n \/ panic' # panic) =>
            /\ ~Representable(n + 1) => Aborted
            /\ (Continues /\ ~(Representable(n + 2) /\ Representable((n + 2) * (n + 2))))
                   => Aborted
            /\ panic' # NoPanic => Aborted /\ pc' = "panicked"]_vars
    /\ [][dimension' # dimension =>
            dimension' = n' + 1 /\ Representable(dimension' * dimension')]_vars
    /\ [][game' # game /\ pc = "idle" =>
            Dim(game') = n' + 1 /\ Representable(Dim(game') * Dim(game'))]_vars
    /\ [][panic # NoPanic => UNCHANGED vars]_vars

\* the step at the first level whose matrix size is not representable has aborted
C12_Witness ==
    /\ panic = "the resulting matrix is too big"
    /\ ~Representable((n + 1) * (n + 1))
    /\ Representable(n * n)
    /\ Len(price_log) = n - 2

\* the call at n = usize::MAX, after the end of the sequence, has aborted
C12_WitnessTooManyIterations ==
    /\ panic = "too many iterations have happened"
    /\ n = usize_MAX
    /\ state_ret = None

----------------------------------------------------------------------------
\* BrownRobinson::new called on any matrix the type Matrix<T, Dyn, Dyn, S>
\* admits, and the solver it returns stepped (specification SpecNew).

PayoffsNew == {RInt(0), RInt(1)}

\* the (rows, columns) of the matrices handed to new()
Shapes == {<<0, 0>>, <<1, 1>>, <<1, 2>>, <<2, 1>>, <<2, 2>>, <<2, 3>>, <<3, 2>>}

DMatrices ==
    UNION {[0 .. (sh[1] - 1) -> [0 .. (sh[2] - 1) -> PayoffsNew]] : sh \in Shapes}

Self == [tag |-> "Self"]

InitNew ==
    /\ NoSolver
    /\ NoIter
    /\ panic = NoPanic
    /\ arg \in DMatrices
    /\ ret = NoneYet
    /\ coop = NoCoop
    /\ NoTree

\* BrownRobinson::new(arg): gen_range panics on an empty range, column() and
\* row() panic on an index out of bounds, and nothing else is checked
BrownRobinsonNew ==
    /\ ret = NoneYet
    /\ panic = NoPanic
    /\ UNCHANGED <<row, bounds_ret, calls, iter_vars, arg, coop>>
    /\ IF NRows(arg) = 0 \/ NCols(arg) = 0
       THEN /\ panic' = "cannot sample empty range"
            /\ UNCHANGED <<solver_vars, ret>>
       ELSE \E a \in 0 .. (NRows(arg) - 1), b \in 0 .. (NCols(arg) - 1) :
                IF a >= NCols(arg) \/ b >= NRows(arg)
                THEN /\ panic' = "Matrix slicing out of bounds."
                     /\ UNCHANGED <<solver_vars, ret>>
                ELSE /\ Construct(New(arg, a, b))
                     /\ ret' = Self
                     /\ UNCHANGED panic
    /\ UNCHANGED tree_vars

\* the caller pulls the next record from the solver new() returned
StepNew ==
    /\ ret = Self
    /\ Step

NextNew == BrownRobinsonNew \/ StepNew

SpecNew == InitNew /\ [][NextNew]_vars

\* C13: constructing a solver from an empty or non-square matrix ends in a
\* failure at construction, and no solver holding an empty or non-square
\* matrix ever exists or is stepped.
C13_InvalidMatrixRejected ==
    /\ (NRows(arg) = 0 \/ NRows(arg) # NCols(arg)) /\ (ret # NoneYet \/ panic # NoPanic)
           => ret = NoneYet /\ panic # NoPanic
    /\ ret = Self => NRows(game) > 0 /\ NRows(game) = NCols(game)
    /\ k >= 1 => NRows(game) > 0 /\ NRows(game) = NCols(game)

----------------------------------------------------------------------------
\* CooperativeGame (specification SpecCoop): new() on a vector of u8, then
\* player_count() and player_mask() on the game it accepted.

\* the values of a characteristic function
Values == {0, 1}

\* every vector of up to MaxValues values, and one vector of 2^p values for
\* every p up to MaxPlayers
CharacteristicFunctions ==
    UNION {[0 .. (len - 1) -> Values] : len \in 0 .. MaxValues}
        \cup {ZerosOf(Pow2(p)) : p \in 0 .. MaxPlayers}

\* usize::is_power_of_two, usize::ilog2
RECURSIVE is_power_of_two(_)
is_power_of_two(x) == x = 1 \/ (x > 1 /\ x % 2 = 0 /\ is_power_of_two(x \div 2))

RECURSIVE ilog2(_)
ilog2(x) == IF x <= 1 THEN 0 ELSE 1 + ilog2(x \div 2)

Ok(v) == [tag |-> "Ok", value |-> v]
Err(v) == [tag |-> "Err", value |-> v]
Returned(v) == [tag |-> "returned", value |-> v]
Panicked(message) == [tag |-> "panicked", message |-> message]

\* CooperativeGame(Box<[T]>)
CooperativeGame(characteristic_function) == [v |-> characteristic_function]

\* CooperativeGame::new
CooperativeGame_new(characteristic_function) ==
    IF Dim(characteristic_function) # 0 /\ is_power_of_two(Dim(characteristic_function))
    THEN Ok(CooperativeGame(characteristic_function))
    ELSE Err(characteristic_function)

\* CooperativeGame::player_count: NonZeroU8::new(len.ilog2() as u8).expect(..)
player_count(g) ==
    LET count == ilog2(Dim(g.v)) % 256
    IN  IF count = 0
        THEN Panicked("the game is validated to be non-zero on creation")
        ELSE Returned(count)

\* u8 << u8: a shift by 8 or more panics in a build with overflow checks and
\* shifts by the amount modulo 8 in a build without them
shl_u8(x, amount) ==
    IF amount >= 8
    THEN {Panicked("attempt to shift left with overflow"),
          Returned((x * Pow2(amount % 8)) % 256)}
    ELSE {Returned((x * Pow2(amount)) % 256)}

\* CooperativeGame::player_mask: the outcomes of the call
player_mask(g, player) ==
    LET count == player_count(g)
    IN  IF count.tag = "panicked" THEN {count}
        ELSE IF count.value - player <= 0
        THEN {Panicked("player exceeds player_count")}
        ELSE shl_u8(1, (count.value - player) - 1)

\* Coalition: a set of players as the bits of a usize.  BitAnd is `&` on
\* two usize, by pairs of naturals
BitAnd[p \in Nat \X Nat] ==
    IF p[1] = 0 \/ p[2] = 0 THEN 0
    ELSE (p[1] % 2) * (p[2] % 2) + 2 * BitAnd[<<p[1] \div 2, p[2] \div 2>>]

\* usize::count_ones
count_ones[c \in Nat] == IF c = 0 THEN 0 ELSE (c % 2) + count_ones[c \div 2]

\* Coalition::n_members, Coalition::sub (self.0 & !rhs.0)
n_members(coalition) == count_ones[coalition]
Coalition_sub(coalition, rhs) == coalition - BitAnd[<<coalition, rhs>>]

\* CooperativeGame::coalitions, v (written V here), v_i
coalitions(g) == 0 .. (Dim(g.v) - 1)
V(g, coalition) == g.v[coalition]
v_i(g) == g.v[Dim(g.v) - 1]

\* fn factorial(n: u8) -> u64, for the n whose factorial TLC can hold (12! at
\* most; u64 holds 20!)
factorial[m \in Nat] == IF m = 0 THEN 1 ELSE m * factorial[m - 1]

\* what an operation does in one of the two builds: the build with overflow
\* checks takes the panic where there is one, the build without them the value
Under(checks, outcomes) ==
    IF checks \/ \A o \in outcomes : o.tag = "panicked"
    THEN IF \E o \in outcomes : o.tag = "panicked"
         THEN CHOOSE o \in outcomes : o.tag = "panicked"
         ELSE CHOOSE o \in outcomes : TRUE
    ELSE CHOOSE o \in outcomes : o.tag = "returned"

\* u8 - u8: an underflow panics in a build with overflow checks and wraps
\* around in a build without them
sub_u8(x, y) ==
    IF x < y
    THEN {Panicked("attempt to subtract with overflow"), Returned(x - y + 256)}
    ELSE {Returned(x - y)}

\* CooperativeGame::x_i: the coalitions the player is a member of
x_i(g, mask) == {coalition \in coalitions(g) : BitAnd[<<coalition, mask>>] # 0}

\* x: one term of the sum, for the coalition s of the player with mask i in a
\* game of count players
Term(g, count, s, i, checks) ==
    LET difference == Under(checks, sub_u8(V(g, s), V(g, Coalition_sub(s, i))))
    IN  IF difference.tag = "panicked" THEN difference
        ELSE Returned(factorial[n_members(s) - 1] * factorial[count - n_members(s)]
                          * difference.value)

\* Iterator::sum of the terms of the coalitions lo .. hi that have one
RECURSIVE SumTerms(_, _, _)
SumTerms(terms, lo, hi) ==
    IF lo > hi THEN 0
    ELSE IF lo = hi THEN (IF lo \in DOMAIN terms THEN terms[lo].value ELSE 0)
    ELSE SumTerms(terms, lo, (lo + hi) \div 2)
             + SumTerms(terms, (lo + hi) \div 2 + 1, hi)

\* x: the value of one player, or the panic met on the way
PlayerValue(g, count, player, checks) ==
    LET mask == Under(checks, player_mask(g, player))
    IN  IF mask.tag = "panicked" THEN mask
        ELSE LET members == x_i(g, mask.value)
                 terms == [s \in members |-> Term(g, count, s, mask.value, checks)]
             IN  IF \E s \in members : terms[s].tag = "panicked"
                 THEN Panicked("attempt to subtract with overflow")
                 ELSE Returned(Rat(SumTerms(terms, 0, Dim(g.v) - 1), factorial[count]))

\* what collecting an iterator gives: the vector of its items
Collected(items) == [tag |-> "collected", value |-> items]

\* CooperativeGame::x, collected: the values of the players 0 .. count - 1 in one
\* of the two builds, or the first panic
x_collected(g, checks) ==
    LET counted == player_count(g)
    IN  IF counted.tag = "panicked" THEN counted
        ELSE LET count == counted.value
                 values == [player \in 0 .. (count - 1) |->
                               PlayerValue(g, count, player, checks)]
             IN  IF \E player \in 0 .. (count - 1) : values[player].tag = "panicked"
                 THEN values[CHOOSE player \in 0 .. (count - 1) :
                                 /\ values[player].tag = "panicked"
                                 /\ \A q \in 0 .. (player - 1) :
                                        values[q].tag # "panicked"]
                 ELSE Collected([player \in 0 .. (count - 1) |-> values[player].value])

\* CooperativeGame::x: the outcomes of collecting it
CooperativeGame_x(g) == {x_collected(g, checks) : checks \in BOOLEAN}

InitCoop ==
    /\ NoSolver
    /\ NoIter
    /\ panic = NoPanic
    /\ arg \in CharacteristicFunctions
    /\ ret = NoneYet
    /\ coop = NoCoop
    /\ NoTree

\* the caller builds the game from the characteristic function
CallNew ==
    /\ ret = NoneYet
    /\ ret' = CooperativeGame_new(arg)
    /\ coop' = IF ret'.tag = "Ok" THEN ret'.value ELSE NoCoop
    /\ UNCHANGED <<solver_vars, row, bounds_ret, calls, iter_vars, panic, arg>>
    /\ UNCHANGED tree_vars

\* what a call leaves behind: its value, or the panic that ended the run
Outcome(result) ==
    IF result.tag = "panicked"
    THEN panic' = result.message /\ UNCHANGED ret
    ELSE ret' = result /\ UNCHANGED panic

\* the caller asks the game for player_count()
CallPlayerCount ==
    /\ coop # NoCoop
    /\ panic = NoPanic
    /\ Outcome(player_count(coop))
    /\ UNCHANGED <<solver_vars, row, bounds_ret, calls, iter_vars, arg, coop>>
    /\ UNCHANGED tree_vars

\* player_mask(player) is called on the game
CallPlayerMask ==
    /\ coop # NoCoop
    /\ panic = NoPanic
    /\ \E player \in 0 .. MaxPlayers :
           /\ arg' = player
           /\ \E result \in player_mask(coop, player) : Outcome(result)
    /\ UNCHANGED <<solver_vars, row, bounds_ret, calls, iter_vars, coop>>
    /\ UNCHANGED tree_vars

\* the caller collects x() of the game
CallX ==
    /\ coop # NoCoop
    /\ panic = NoPanic
    /\ \E result \in CooperativeGame_x(coop) : Outcome(result)
    /\ UNCHANGED <<solver_vars, row, bounds_ret, calls, iter_vars, arg, coop>>
    /\ UNCHANGED tree_vars

NextCoop == CallNew \/ CallPlayerCount \/ CallPlayerMask \/ CallX

SpecCoop == InitCoop /\ [][NextCoop]_vars

\* the vector describes at least one player: it has 2^p values for a p >= 1
DescribesPlayers(cf) == \E p \in 1 .. MaxPlayers : Dim(cf) = Pow2(p)

\* C14: new() fails, handing the vector back unchanged, for every
\* characteristic function that does not describe at least one player; so for
\* every game it accepts player_count() returns a value >= 1 and never panics.
C14_OnlyGamesWithPlayers ==
    /\ [][ret = NoneYet /\ ret' # NoneYet =>
            /\ ret'.tag = "Err" => ret'.value = arg /\ coop' = NoCoop
            /\ ~DescribesPlayers(arg) => ret'.tag = "Err"]_vars
    /\ [](coop # NoCoop => DescribesPlayers(coop.v))
    /\ [](coop # NoCoop => player_count(coop).tag = "returned" /\ player_count(coop).value >= 1)
    /\ [](panic # "the game is validated to be non-zero on creation")

\* C19: in a game of n players player_mask(p) is 1 << (n - 1 - p) for every
\* p < n, so distinct players have distinct single-bit masks that together
\* cover the grand coalition 2^n - 1, and a call with p >= n panics instead of
\* returning a mask.
C19_PlayerMaskIsBit ==
    /\ [][coop # NoCoop /\ coop' = coop /\ arg' # arg =>
            LET count == ilog2(Dim(coop.v))
            IN  IF arg' < count
                THEN panic' = NoPanic /\ ret' = Returned(Pow2(count - 1 - arg'))
                ELSE panic' # NoPanic /\ ret' = ret]_vars
    /\ [](coop # NoCoop =>
            LET count == ilog2(Dim(coop.v))
            IN  /\ \A p \in 0 .. (count - 1) :
                       player_mask(coop, p) = {Returned(Pow2(count - 1 - p))}
                /\ \A p \in 0 .. (count - 1), q \in 0 .. (count - 1) :
                       p # q => player_mask(coop, p) \cap player_mask(coop, q) = {})

----------------------------------------------------------------------------
\* Game::solve_analytically (specification SpecAnalytic).

RDiv(p, q) == Rat(p.n * q.d, p.d * q.n)
RNeg(p) == [n |-> -p.n, d |-> p.d]

Transpose(m) == [j \in 0 .. (NCols(m) - 1) |-> [i \in 0 .. (NRows(m) - 1) |-> m[i][j]]]

\* the matrix without row i and column j
Minor(m, i, j) ==
    [r \in 0 .. (Dim(m) - 2) |-> [c \in 0 .. (Dim(m) - 2) |->
        m[IF r < i THEN r ELSE r + 1][IF c < j THEN c ELSE c + 1]]]

\* the determinant, expanded along row 0
RECURSIVE Det(_)
RECURSIVE DetSum(_, _)
Det(m) == IF Dim(m) = 1 THEN m[0][0] ELSE DetSum(m, Dim(m))
DetSum(m, upto) ==
    IF upto = 0 THEN RInt(0)
    ELSE LET j == upto - 1
             term == RMul(m[0][j], Det(Minor(m, 0, j)))
         IN  RAdd(DetSum(m, j), IF j % 2 = 0 THEN term ELSE RNeg(term))

\* the matrix a with column j replaced by the vector b
ReplaceColumn(a, j, b) ==
    [r \in Indices(a) |-> [c \in Indices(a) |-> IF c = j THEN b[r] ELSE a[r][c]]]

NoSolution == [tag |-> "None"]
Solution(x) == [tag |-> "Some", value |-> x]

\* solve(a, b): a.qr().solve_mut(&mut b).then_some(b).  solve_mut fails exactly
\* when R has a zero on its diagonal, which in exact arithmetic is when a is
\* singular; otherwise b becomes the one solution of a * x = b
solve(a, b) ==
    LET det == Det(a)
    IN  IF det = RInt(0)
        THEN NoSolution
        ELSE Solution([i \in Indices(a) |-> RDiv(Det(ReplaceColumn(a, i, b)), det)])

\* solve_game: a row of 1s below the matrix, a column of -1s to its right, 0 in
\* the last cell
Augmented(m) ==
    LET rows == NRows(m)
        columns == NCols(m)
    IN  [r \in 0 .. rows |-> [c \in 0 .. columns |->
            IF r = rows /\ c = columns THEN RInt(0)
            ELSE IF c = columns THEN RInt(-1)
            ELSE IF r = rows THEN RInt(1)
            ELSE m[r][c]]]

\* solve_game: the right-hand side, zeros with 1 in the last cell
Unit(len) == [i \in 0 .. (len - 1) |-> IF i = len - 1 THEN RInt(1) ELSE RInt(0)]

solve_game(m) == solve(Augmented(m), Unit(NCols(m) + 1))

\* Game::solve_analytically: Some((a, b)), None, or the panic of unreachable!()
solve_analytically(m) ==
    LET a == solve_game(Transpose(m))
        b == solve_game(m)
    IN  IF a.tag = "Some" /\ b.tag = "Some"
        THEN Returned(Solution(<<a.value, b.value>>))
        ELSE IF a.tag = "None" /\ b.tag = "None"
        THEN Returned(NoSolution)
        ELSE Panicked("Either both games are solvable or both games are not solvable")

\* every 1 x 1 matrix over Payoffs
Matrices1 == [0 .. 0 -> [0 .. 0 -> Payoffs]]

InitAnalytic ==
    /\ NoSolver
    /\ NoIter
    /\ panic = NoPanic
    /\ arg \in Matrices1 \cup Matrices
    /\ ret = NoneYet
    /\ coop = NoCoop
    /\ NoTree

\* the caller solves the game arg analytically
CallSolveAnalytically ==
    /\ ret = NoneYet
    /\ panic = NoPanic
    /\ \E result \in {solve_analytically(arg)} : Outcome(result)
    /\ UNCHANGED <<solver_vars, row, bounds_ret, calls, iter_vars, arg, coop>>
    /\ UNCHANGED tree_vars

NextAnalytic == CallSolveAnalytically

SpecAnalytic == InitAnalytic /\ [][NextAnalytic]_vars

\* the sum of the first len entries of v, and the dot product of v and w
RECURSIVE RSum(_, _)
RSum(v, len) == IF len = 0 THEN RInt(0) ELSE RAdd(RSum(v, len - 1), v[len - 1])
RDot(v, w) == RSum([i \in DOMAIN v |-> RMul(v[i], w[i])], Dim(v))

\* a * x for a square matrix a
MatVec(a, x) == [r \in Indices(a) |-> RDot(Row(a, r), x)]

\* vectors of weights 0, 1/2, 1 followed by a value among Payoffs
Candidates(len) ==
    {x \in [0 .. len -> {Rat(0, 1), Rat(1, 2), Rat(1, 1)} \cup Payoffs] :
        \A i \in 0 .. (len - 1) : x[i] \in {Rat(0, 1), Rat(1, 2), Rat(1, 1)}}

\* one of the candidate vectors solves the augmented system of the matrix m
HasSolution(m) ==
    \E x \in Candidates(Dim(m)) : MatVec(Augmented(m), x) = Unit(Dim(m) + 1)

\* C15: on a non-empty square matrix solve_analytically never panics; it
\* returns None only when the augmented systems have no solution, and
\* otherwise a pair of vectors that solve them; and one system is solvable
\* exactly when the other is.
C15_NoneIffNoSolution ==
    /\ panic = NoPanic
    /\ solve_game(Transpose(arg)).tag = solve_game(arg).tag
    /\ ret # NoneYet /\ ret.value.tag = "Some" =>
           /\ MatVec(Augmented(Transpose(arg)), ret.value.value[1]) = Unit(Dim(arg) + 1)
           /\ MatVec(Augmented(arg), ret.value.value[2]) = Unit(Dim(arg) + 1)
    /\ ret # NoneYet /\ ret.value.tag = "None" =>
           ~HasSolution(arg) /\ ~HasSolution(Transpose(arg))

\* C16: for a matrix with a pure saddle point (lowest price = highest price)
\* solve_analytically returns a solution, and the last element of each of its
\* two vectors is the saddle value.
C16_SaddleValueExact ==
    ret # NoneYet /\ lowest_price(arg)[2] = highest_price(arg)[2] =>
        /\ ret.value.tag = "Some"
        /\ ret.value.value[1][Dim(arg)] = lowest_price(arg)[2]
        /\ ret.value.value[2][Dim(arg)] = lowest_price(arg)[2]

\* the expected payoff of m when A plays rows with weights a and B columns with weights b
ExpectedPayoff(m, a, b) ==
    RSum([i \in Indices(m) |-> RMul(a[i], RDot(Row(m, i), [j \in Indices(m) |-> b[j]]))],
         Dim(m))

\* C17: whenever solve_analytically returns (a, b), the elements before the
\* last of each vector are weights >= 0 that sum to 1, the last element is the
\* game value, and the expected payoff of the matrix under the two weight
\* vectors equals that value.
C17_SolutionIsMixedStrategy ==
    ret # NoneYet /\ ret.value.tag = "Some" =>
        LET a == ret.value.value[1]
            b == ret.value.value[2]
            len == Dim(arg)
        IN  /\ \A i \in 0 .. (len - 1) : RLe(RInt(0), a[i]) /\ RLe(RInt(0), b[i])
            /\ RSum(a, len) = RInt(1)
            /\ RSum(b, len) = RInt(1)
            /\ a[len] = b[len]
            /\ ExpectedPayoff(arg, a, b) = a[len]

----------------------------------------------------------------------------
\* The example matrix [[2,1,3],[3,0,1],[1,2,1]] (specification Spec).

\* C18 as stated: bounds() gives lower price 1 and upper price 2, and in every
\* run price_estimation() converges to approximately 1.67.  min_high_price
\* only falls, max_low_price only rises and the estimate is their mean and lies
\* between them, so an estimate that ends up at 1.67 needs 1.67, to within
\* 0.01, to lie between the two running bounds at every k.
C18_ConvergesTo167 ==
    game = Example3 =>
        /\ bounds = <<RInt(1), RInt(2)>>
        /\ RLe(Rat(166, 100), min_high_price)
        /\ RLe(max_low_price, Rat(168, 100))

\* C18 as amended: bounds() gives lower price 1 and upper price 2, and in
\* every run the running bounds enclose 3/2 at every k, so price_estimation()
\* is never farther from 3/2 than half of epsilon.
C18_EnclosesOneAndAHalf ==
    game = Example3 =>
        /\ bounds = <<RInt(1), RInt(2)>>
        /\ bounds_ret # NoBounds => bounds_ret = <<RInt(1), RInt(2)>>
        /\ RLe(max_low_price, Rat(3, 2))
        /\ RLe(Rat(3, 2), min_high_price)
        /\ RLe(RAbs(RSub(price_estimation, Rat(3, 2))),
               RDivInt(RSub(min_high_price, max_low_price), 2))

\* a run on the example matrix whose upper running bound has come down to 3/2
C18_Witness ==
    /\ game = Example3
    /\ bounds_ret = <<RInt(1), RInt(2)>>
    /\ k >= 2
    /\ min_high_price = Rat(3, 2)
    /\ RLt(price_estimation, Rat(3, 2))

----------------------------------------------------------------------------
\* dmatrix_from_rows of zero_sum/parse.rs (specification SpecParse).  The rows
\* are sequences, as the parser collects them; the vectors of this size never
\* make row_len * row_count overflow, so the checked_mul of line 85 succeeds.

\* the values the parser read
Parsed == {1, 2}

TextRow == UNION {[1 .. len -> Parsed] : len \in 0 .. MaxRowLen}
TextRows == UNION {[1 .. count -> TextRow] : count \in 0 .. MaxRows}

\* DMatrix::from_vec_storage(VecStorage::new(Dyn(nrows), Dyn(ncols), data))
DMatrix(nrows, ncols, data) == [nrows |-> nrows, ncols |-> ncols, data |-> data]

\* the element (r, c) of a DMatrix: its storage is column-major
Element(m, r, c) == m.data[c * m.nrows + r + 1]

\* the loops of dmatrix_from_rows from the c-th pass and the r-th row on: each
\* pass takes the next value of every row, which is its c-th one; a row that
\* has run out of values is the error
RECURSIVE Collect(_, _, _, _)
Collect(rows, c, r, data) ==
    IF c = Len(rows[1]) THEN Ok(data)
    ELSE IF r > Len(rows) THEN Collect(rows, c + 1, 1, data)
    ELSE IF c + 1 > Len(rows[r]) THEN Err("row lengths don't match")
    ELSE Collect(rows, c, r + 1, Append(data, rows[r][c + 1]))

dmatrix_from_rows(rows) ==
    IF rows = << >>
    THEN Ok(DMatrix(0, 0, << >>))
    ELSE LET row_len == Len(rows[1])
             row_count == Len(rows)
             data == Collect(rows, 0, 1, << >>)
         IN  IF data.tag = "Err"
             THEN data
             ELSE Ok(DMatrix(row_count, row_len, data.value))

InitParse ==
    /\ NoSolver
    /\ NoIter
    /\ panic = NoPanic
    /\ arg \in TextRows
    /\ ret = NoneYet
    /\ coop = NoCoop
    /\ NoTree

\* the parser hands the rows it collected to dmatrix_from_rows
CallDMatrixFromRows ==
    /\ ret = NoneYet
    /\ ret' = dmatrix_from_rows(arg)
    /\ UNCHANGED <<solver_vars, row, bounds_ret, calls, iter_vars, panic, arg, coop>>
    /\ UNCHANGED tree_vars

NextParse == CallDMatrixFromRows

SpecParse == InitParse /\ [][NextParse]_vars

\* C20: the matrix built from the rows has as many rows as there are text
\* rows and as many columns as the first row has values, and its element
\* (r, c) is the c-th value of the r-th row; whenever two rows have different
\* lengths the result is the error "row lengths don't match" and no matrix.
C20_MatrixFromRows ==
    ret # NoneYet =>
        IF \E r \in 1 .. Len(arg) : Len(arg[r]) # Len(arg[1])
        THEN ret = Err("row lengths don't match")
        ELSE /\ ret.tag = "Ok"
             /\ ret.value.nrows = Len(arg)
             /\ ret.value.ncols = (IF arg = << >> THEN 0 ELSE Len(arg[1]))
             /\ \A r \in 0 .. (ret.value.nrows - 1), c \in 0 .. (ret.value.ncols - 1) :
                    Element(ret.value, r, c) = arg[r + 1][c + 1]

----------------------------------------------------------------------------
\* Further claims about the solver of the crate (specification Spec).

\* the vector of zeros with 1 at index i
OnlyUsed(len, i) == [ZerosOf(len) EXCEPT ![i] = 1]

\* C21: after construction with initial picks a0 (A's row) and b0 (B's
\* column), and still after the first step, A's scores are row a0 of the
\* matrix and B's scores are column b0; min_high_price is the maximum of A's
\* scores, max_low_price the minimum of B's, each use-count vector holds the
\* pick alone, and the first step changes only k.
C21_ScoresAreOwnRowAndColumn ==
    /\ [](k <= 1 =>
            /\ a_scores = Row(game, a_strategy)
            /\ b_scores = Column(game, b_strategy)
            /\ min_high_price = VecMax(a_scores)
            /\ max_low_price = VecMin(b_scores)
            /\ a_strategy_times_used = OnlyUsed(NRows(game), a_strategy)
            /\ b_strategy_times_used = OnlyUsed(NCols(game), b_strategy))
    /\ [][k = 0 /\ k' # k =>
            /\ k' = 1
            /\ UNCHANGED <<game, a_strategy, b_strategy, a_scores, b_scores,
                           min_high_price, max_low_price,
                           a_strategy_times_used, b_strategy_times_used>>]_vars

\* C22: at every step k > 1 the pair (a, b) is selected from the scores as
\* they stood before the step; entry a of A's use-counts and entry b of B's
\* are incremented and no other entry changes; column b of the matrix is added
\* to A's scores and row a to B's; and the record reports the maximum of A's
\* updated scores divided by k as high_price and the minimum of B's updated
\* scores divided by k as low_price.
C22_StepUpdates ==
    [][k' > 1 /\ k' # k =>
          \E a \in MaxIndices(a_scores), b \in MinIndices(b_scores) :
              /\ a_strategy' = a
              /\ b_strategy' = b
              /\ a_strategy_times_used' =
                     [i \in DOMAIN a_strategy_times_used |->
                         a_strategy_times_used[i] + (IF i = a THEN 1 ELSE 0)]
              /\ b_strategy_times_used' =
                     [j \in DOMAIN b_strategy_times_used |->
                         b_strategy_times_used[j] + (IF j = b THEN 1 ELSE 0)]
              /\ \A i \in Indices(game) : a_scores'[i] = RAdd(a_scores[i], game[i][b])
              /\ \A j \in Indices(game) : b_scores'[j] = RAdd(b_scores[j], game[a][j])
              /\ row'.a_score = a_scores'
              /\ row'.b_score = b_scores'
              /\ row'.high_price = RDivInt(VecMax(a_scores'), k')
              /\ row'.low_price = RDivInt(VecMin(b_scores'), k')]_vars

\* a step at k = 4 whose two prices differ and are not whole numbers
C22_Witness ==
    /\ k = 4
    /\ row.iteration = 4
    /\ RLt(row.low_price, row.high_price)
    /\ row.high_price.d # 1
    /\ row.low_price.d # 1

\* C25: in every reachable state max_low_price <= min_high_price, so the
\* epsilon of every record is >= 0 and price_estimation() lies between
\* max_low_price and min_high_price.
C25_LowLeHigh ==
    /\ RLe(max_low_price, min_high_price)
    /\ row # NoRow => RLe(RInt(0), row.epsilon)
    /\ RLe(max_low_price, price_estimation)
    /\ RLe(price_estimation, min_high_price)

\* the running bounds have met although the prices of the last step are apart
C25_Witness ==
    /\ k >= 3
    /\ row.epsilon = RInt(0)
    /\ RLt(row.low_price, row.high_price)
    /\ min_high_price # RInt(0)

----------------------------------------------------------------------------
\* Further claims about the discretization driver (specification SpecIter).

\* the largest entry of a vector of use-counts
MaxCount(v) == CHOOSE c \in {v[i] : i \in DOMAIN v} : \A j \in DOMAIN v : v[j] <= c

InUnitInterval(q) == RLe(RInt(0), q) /\ RLe(q, RInt(1))

\* C23: a refinement step at level n runs the solver exactly when the lower
\* price of the discretized matrix differs from its upper price.  When they
\* are equal the step yields that price as value, x = i / n for a row i whose
\* minimum is the largest row minimum and y = j / n for a column j whose
\* maximum is the smallest column maximum.  Otherwise it yields
\* price_estimation() of the stopped solver as value, and x, y are the indices
\* of A's and B's most used strategies divided by n.  x and y always lie in
\* [0, 1].
C23_StepYield ==
    /\ [][pc = "idle" /\ panic' = NoPanic /\ dimension' # dimension =>
            \E g \in {current_game(coefficients, n', n' + 1)} :
            \E lower \in {VecMax([i \in Indices(g) |-> VecMin(Row(g, i))])},
               upper \in {VecMin([j \in Indices(g) |-> VecMax(Column(g, j))])} :
                /\ (pc' = "brown_robinson") <=> (lower # upper)
                /\ pc' = "brown_robinson" => game' = g /\ state_ret' = state_ret
                /\ lower = upper =>
                       /\ pc' = "idle"
                       /\ state_ret'.tag = "Some"
                       /\ state_ret'.state.price = lower
                       /\ \E i \in Indices(g) :
                              /\ VecMin(Row(g, i)) = lower
                              /\ state_ret'.state.x = Rat(i, n')
                       /\ \E j \in Indices(g) :
                              /\ VecMax(Column(g, j)) = upper
                              /\ state_ret'.state.y = Rat(j, n')]_vars
    /\ [][pc = "brown_robinson" /\ pc' = "idle" =>
            /\ RLt(row'.epsilon, accuracy)
            /\ state_ret'.tag = "Some"
            /\ state_ret'.state.price =
                   RDivInt(RAdd(max_low_price', min_high_price'), 2)
            /\ \E i \in Indices(game) :
                   /\ a_strategy_times_used'[i] = MaxCount(a_strategy_times_used')
                   /\ state_ret'.state.x = Rat(i, n)
            /\ \E j \in Indices(game) :
                   /\ b_strategy_times_used'[j] = MaxCount(b_strategy_times_used')
                   /\ state_ret'.state.y = Rat(j, n)]_vars
    /\ [][pc = "brown_robinson" /\ pc' = "brown_robinson" =>
            ~RLt(row'.epsilon, accuracy) /\ state_ret' = state_ret]_vars
    /\ [](state_ret.tag = "Some" =>
            InUnitInterval(state_ret.state.x) /\ InUnitInterval(state_ret.state.y))

\* a step has been completed from a stopped solver that took several steps,
\* at a point strictly inside the unit square
C23_Witness ==
    /\ pc = "idle"
    /\ state_ret.tag = "Some"
    /\ calls >= 3
    /\ state_ret.state.price = price_estimation
    /\ RLt(RInt(0), state_ret.state.x) /\ RLt(state_ret.state.x, RInt(1))
    /\ RLt(RInt(0), state_ret.state.y) /\ RLt(state_ret.state.y, RInt(1))
    /\ MaxCount(a_strategy_times_used) >= 2

\* the call in progress returned end-of-sequence last time
Exhausted == state_ret = None /\ pc = "idle" /\ panic = NoPanic

\* a call of next() on the driver has been made
Called == n' # n \/ panic' # panic

C27_FirstTwoCallsYield ==
    /\ state_ret = None => Len(price_log) >= 2
    /\ Representable(4 * 4) /\ panic # NoPanic => Len(price_log) >= 2
    /\ Len(price_log) <= 1 => window = << >> /\ delta_log = << >> /\ sum_delta = RInt(0)
    /\ Len(price_log) = 0 => state_ret = NoneYet /\ previous_price = NoPrice
    /\ Len(price_log) = 1 /\ pc = "idle" =>
           n = 2 /\ state_ret.tag = "Some" /\ previous_price = <<price>>
    /\ Len(price_log) = 2 /\ pc = "idle" /\ panic = NoPanic /\ state_ret # None =>
           n = 3 /\ state_ret.tag = "Some" /\ Len(window) = 1

\* the second call has yielded a state through the solver, into a window
\* that was empty and has room for one delta only
C27_Witness ==
    /\ Len(price_log) = 2
    /\ n = 3
    /\ state_ret.tag = "Some"
    /\ window_size = 1
    /\ Len(window) = 1
    /\ game # << >>
    /\ RLt(accuracy, sum_delta)

----------------------------------------------------------------------------
\* The driver with the solver loop followed to its end (specification
\* SpecRun).  A call of next() in progress is not abandoned by its caller, so
\* the loop keeps pulling records: weak fairness of the loop's step.

\* the loop followed for at most MaxRunSteps records
IterBrownRobinsonRun ==
    /\ calls < MaxRunSteps
    /\ BrownRobinsonLoop

\* the drivers with the largest window, which take the most steps, on the
\* wider of the two build targets
InitRun ==
    /\ InitIter
    /\ window_size = MaxWindow
    /\ usize_bits = MaxUsizeBits

NextRun == IterNext \/ IterBrownRobinsonRun

SpecRun == InitRun /\ [][NextRun]_vars /\ WF_vars(IterBrownRobinsonRun)

\* the solver loop of a driver step is running; it has stopped and the step
\* has completed
SolverRuns == pc = "brown_robinson"
SolverStopped ==
    /\ pc = "idle"
    /\ state_ret.tag = "Some"
    /\ row # NoRow
    /\ RLt(row.epsilon, accuracy)

\* C24: for every accuracy and every discretized matrix without a pure
\* saddle point, whatever the initial pick and the tie-breaks are, the solver
\* run inside a driver step comes to a record whose epsilon is below the
\* accuracy, and the driver step then completes with a state.
C24_SolverRunTerminates ==
    /\ SolverRuns ~> SolverStopped
    /\ [][SolverRuns /\ pc' = "idle" => SolverStopped']_vars

\* a run of more than MaxBrSteps records has stopped below the finer accuracy
C24_Witness ==
    /\ pc = "idle"
    /\ state_ret.tag = "Some"
    /\ calls > MaxBrSteps
    /\ row.iteration = calls
    /\ RLt(row.epsilon, accuracy)
    /\ accuracy = Rat(1, 20)

----------------------------------------------------------------------------
\* Further claims about the cooperative game (specification SpecCoop).

\* C30: for every accepted cooperative game over u8 values, x() yields one
\* Shapley value per player without arithmetic failure (no underflow in
\* v(S) - v(S \ {i}), no overflow in the factorial weights), and the values
\* sum to v(I), the value of the grand coalition.
C30_ShapleyValues ==
    /\ coop # NoCoop =>
           \A outcome \in CooperativeGame_x(coop) :
               /\ outcome.tag = "collected"
               /\ Dim(outcome.value) = ilog2(Dim(coop.v))
               /\ RSum(outcome.value, Dim(outcome.value)) = RInt(v_i(coop))
    /\ panic # "attempt to subtract with overflow"

----------------------------------------------------------------------------
\* BackwardInductionGame of the crate game_theory (specification SpecTree).

\* Option<Prize<T>> of a node; a Prize is the vector of the players' wins
PrizeNone == [tag |-> "None"]
PrizeSome(prize) == [tag |-> "Some", value |-> prize]

\* random: layer_size after the layers 1 .. layer were sized
RECURSIVE layer_size(_, _)
layer_size(players, layer) ==
    IF layer = 0 THEN 1
    ELSE layer_size(players, layer - 1) * players[(layer - 1) % Dim(players)]

\* random: the uid of the first node of a layer (uid counts the nodes pushed)
RECURSIVE first_uid(_, _)
first_uid(players, layer) ==
    IF layer = 0 THEN 0
    ELSE IF layer = 1 THEN 1
    ELSE first_uid(players, layer - 1) + layer_size(players, layer - 1)

\* random: the root
RootNode ==
    [uid |-> 0, player |-> 0, strat |-> 0, parent |-> 0, prize |-> PrizeNone]

\* random: the node pushed at at_layer_index of the layer built in round
\* layer - 1 of the loop, with the prize the last loop gives to the last layer
NodeAt(depth, players, draws, layer, at_layer_index) ==
    LET src_player == (layer - 1) % Dim(players)
        player_paths == players[src_player]
    IN  [uid |-> first_uid(players, layer) + at_layer_index,
         player |-> (src_player + 1) % Dim(players),
         strat |-> (at_layer_index % player_paths) + 1,
         parent |-> at_layer_index \div player_paths,
         prize |-> IF layer = depth
                   THEN PrizeSome([p \in Indices(players) |->
                                      draws[at_layer_index * Dim(players) + p]])
                   ELSE PrizeNone]

\* BackwardInductionGame::random for the numbers draws that the generator
\* gives, in the order it is asked for them
random(depth, players, draws) ==
    IF Dim(players) = 0
    THEN NoSolution
    ELSE Solution([layer \in 0 .. depth |->
                      IF layer = 0
                      THEN [i \in {0} |-> RootNode]
                      ELSE [i \in 0 .. (layer_size(players, layer) - 1) |->
                               NodeAt(depth, players, draws, layer, i)]])

\* the vectors of len numbers that add up to at most total
RECURSIVE Draws(_, _)
Draws(len, total) ==
    IF len = 0 THEN {<< >>}
    ELSE UNION {{[i \in 0 .. (len - 1) |-> IF i = len - 1 THEN last ELSE d[i]] :
                    d \in Draws(len - 1, total - last)} : last \in 0 .. total}

\* random: how many numbers the generator is asked for
Entries(depth, players) ==
    IF Dim(players) = 0 THEN 0 ELSE layer_size(players, depth) * Dim(players)

\* what random() is called with: the depth, the players' numbers of strategies
\* and the numbers the generator will give
TreeInputs ==
    UNION {UNION {{[depth |-> depth, players |-> players, draws |-> draws] :
                      draws \in Draws(Entries(depth, players), MaxPrizeSum)} :
                     players \in {pl \in UNION {[0 .. (len - 1) -> 1 .. MaxPaths] :
                                                   len \in 0 .. MaxTreePlayers} :
                                     Entries(depth, pl) <= MaxEntries}} :
              depth \in 1 .. MaxDepth}

\* reduce: the nodes of a layer whose parent is the node parent_idx
Children(tree, layer, parent_idx) ==
    {i \in Indices(tree[layer]) : tree[layer][i].parent = parent_idx}

\* the child with the smallest win of the parent's player is taken
max_by_key_Min(tree, layer, children, parent_player) ==
    CHOOSE i \in children :
        \A j \in children :
            tree[layer][i].prize.value[parent_player]
                <= tree[layer][j].prize.value[parent_player]
\* Iterator::max_by_key over the prizes of the children, in the order they were
\* pushed: the last of the children with the largest key
max_by_key(tree, layer, children, parent_player) ==
    CHOOSE i \in children :
        \A j \in children :
            \/ tree[layer][j].prize.value[parent_player]
                   < tree[layer][i].prize.value[parent_player]
            \/ /\ tree[layer][j].prize.value[parent_player]
                      = tree[layer][i].prize.value[parent_player]
               /\ j <= i

\* reduce: the tree after the parents of the nodes of a layer took their prizes
Propagate(tree, layer) ==
    [l \in Indices(tree) |->
        IF l # layer - 1 THEN tree[l]
        ELSE [parent_idx \in Indices(tree[l]) |->
                 LET children == Children(tree, layer, parent_idx)
                     parent == tree[l][parent_idx]
                 IN  IF children = {} THEN parent
                     ELSE [parent EXCEPT !.prize =
                              tree[layer][max_by_key(tree, layer, children,
                                                     parent.player)].prize]]]

\* print_current: the nodes below the root in the order the highlighting
\* visits them, as pairs <<layer_id, index>>
RECURSIVE NodesFrom(_, _, _)
NodesFrom(tree, layer_id, index) ==
    IF layer_id >= Dim(tree) THEN << >>
    ELSE IF index >= Dim(tree[layer_id]) THEN NodesFrom(tree, layer_id + 1, 0)
    ELSE <<(<<layer_id, index>>)>> \o NodesFrom(tree, layer_id, index + 1)

\* print_current: the highlighting of the nodes that hold root_win, from the
\* node at position `at` of the visiting order on, with the map parents
RECURSIVE Highlight(_, _, _, _, _)
Highlight(tree, root_win, order, at, parents) ==
    IF at > Len(order) THEN Returned(parents)
    ELSE LET node == tree[order[at][1]][order[at][2]]
             parent_uid == tree[order[at][1] - 1][node.parent].uid
         IN  IF node.prize.tag = "Some" /\ node.prize.value = root_win
             THEN IF parent_uid \notin parents
                  THEN Panicked("Parent " \o ToString(parent_uid) \o " for "
                                    \o ToString(node.uid))
                  ELSE Highlight(tree, root_win, order, at + 1, parents \cup {node.uid})
             ELSE Highlight(tree, root_win, order, at + 1, parents)

\* BackwardInductionGame::print_current with a writer that never fails: the
\* keys of parents at the end, or the panic
print_current(tree) ==
    IF tree[0][0].prize.tag = "Some"
    THEN Highlight(tree, tree[0][0].prize.value, NodesFrom(tree, 1, 0), 1, {0})
    ELSE Returned({})

InitTree ==
    /\ NoSolver
    /\ NoIter
    /\ panic = NoPanic
    /\ arg \in TreeInputs
    /\ ret = NoneYet
    /\ coop = NoCoop
    /\ NoTree

\* main of lab-04 builds the tree
CallRandom ==
    /\ ret = NoneYet
    /\ ret' = random(arg.depth, arg.players, arg.draws)
    /\ layers' = IF ret'.tag = "Some" THEN ret'.value ELSE NoLayers
    /\ UNCHANGED <<solver_vars, row, bounds_ret, calls, iter_vars, panic, arg, coop,
                   iteration, reduce_pc>>

\* what print_current leaves behind inside reduce: the loop goes on, or the
\* panic ends the run
Printed(tree) ==
    LET printed == print_current(tree)
    IN  IF printed.tag = "panicked"
        THEN panic' = printed.message /\ reduce_pc' = "panicked"
        ELSE UNCHANGED panic /\ reduce_pc' = "loop"

\* reduce up to its loop: "# Iteration #0" and the tree as it was built
CallReduce ==
    /\ layers # NoLayers
    /\ reduce_pc = "not called"
    /\ iteration' = 0
    /\ Printed(layers)
    /\ UNCHANGED <<solver_vars, row, bounds_ret, calls, iter_vars, arg, ret, coop, layers>>

\* reduce: one round of the loop over (1..self.layers.len()).rev()
ReduceIteration ==
    /\ reduce_pc = "loop"
    /\ iteration < Dim(layers) - 1
    /\ iteration' = iteration + 1
    /\ \E layer \in {Dim(layers) - 1 - iteration} :
           IF \E i \in Indices(layers[layer]) : layers[layer][i].prize.tag = "None"
           THEN /\ panic' = "called Option::unwrap() on a None value"
                /\ reduce_pc' = "panicked"
                /\ UNCHANGED layers
           ELSE /\ layers' = Propagate(layers, layer)
                /\ Printed(layers')
    /\ UNCHANGED <<solver_vars, row, bounds_ret, calls, iter_vars, arg, ret, coop>>

\* reduce: the loop is over, Ok(()) is returned
ReduceReturn ==
    /\ reduce_pc = "loop"
    /\ iteration = Dim(layers) - 1
    /\ ret' = Ok(<< >>)
    /\ reduce_pc' = "returned"
    /\ UNCHANGED <<solver_vars, row, bounds_ret, calls, iter_vars, panic, arg, coop,
                   layers, iteration>>

NextTree == CallRandom \/ CallReduce \/ ReduceIteration \/ ReduceReturn

SpecTree == InitTree /\ [][NextTree]_vars

\* every node of the layer holds a prize / no node of the layer holds one
Holds(tree, layer) == \A i \in Indices(tree[layer]) : tree[layer][i].prize.tag = "Some"
Bare(tree, layer) == \A i \in Indices(tree[layer]) : tree[layer][i].prize.tag = "None"

\* the node holds the prize of one of its own children, one whose win of the
\* player who moves at the node is the largest among the node's children
HoldsBestChild(tree, layer, index) ==
    LET node == tree[layer][index]
        children == Children(tree, layer + 1, index)
    IN  \E c \in children :
            /\ node.prize = tree[layer + 1][c].prize
            /\ \A other \in children :
                   tree[layer + 1][other].prize.value[node.player]
                       <= tree[layer + 1][c].prize.value[node.player]

\* C28: reduce() resolves the game tree from the deepest layer towards the
\* root, one layer per iteration, so a layer is processed only when all its
\* nodes already hold a prize; when it is through, the leaf prizes are
\* unchanged and every non-leaf node (the root included) holds the prize of one
\* of its own children, one whose component for the player who moves at that
\* node is maximal among that node's children.
C28_ReduceResolves ==
    /\ [][iteration' = iteration + 1 =>
            LET layer == (Dim(layers) - 1) - iteration
            IN  /\ layer >= 1
                /\ \A l \in Indices(layers) :
                       IF l >= layer THEN Holds(layers, l) ELSE Bare(layers, l)
                /\ \A l \in Indices(layers') :
                       IF l >= layer - 1 THEN Holds(layers', l) ELSE Bare(layers', l)
                /\ \A l \in Indices(layers) : l # layer - 1 => layers'[l] = layers[l]
                /\ \A i \in Indices(layers[layer - 1]) :
                       layers'[layer - 1][i] =
                           [layers[layer - 1][i] EXCEPT
                               !.prize = layers'[layer - 1][i].prize]]_vars
    /\ [](layers # NoLayers /\ iteration = Dim(layers) - 1 =>
            /\ layers[arg.depth] = random(arg.depth, arg.players, arg.draws).value[arg.depth]
            /\ \A l \in 0 .. (arg.depth - 1) : \A i \in Indices(layers[l]) :
                   HoldsBestChild(layers, l, i))

\* reduce() returned from a tree of two layers below the root in which the
\* children of the root took different prizes
C28_Witness ==
    /\ reduce_pc = "returned"
    /\ Dim(layers) = 3
    /\ Dim(layers[1]) = 2
    /\ layers[1][0].prize # layers[1][1].prize
    /\ layers[0][0].prize = layers[1][0].prize

\* C29: for every game tree built by random() and a writer that never fails,
\* reduce() completes every iteration and returns Ok: neither the prize
\* propagation nor the highlighting of the winning path in print_current ever
\* hits a missing prize or a missing parent entry.
C29_ReduceNeverPanics ==
    /\ panic = NoPanic
    /\ reduce_pc # "panicked"
    /\ reduce_pc = "returned" => ret = Ok(<< >>)

====
